---- MODULE Spec2Model ----
(***************************************************************************)
(* Chunker and TF-IDF scorer of the text retrieval engine.                 *)
(*                                                                         *)
(* A String is modelled as the sequence of its characters; the chunker,    *)
(* which works on byte offsets, sees the UTF-8 encoding of that sequence.  *)
(* An f32 is modelled as NaN, -inf, +inf or a fixed-point number with      *)
(* Scale units per 1.0.                                                    *)
(***************************************************************************)
EXTENDS Integers, Sequences, FiniteSets, TLC

VARIABLES
    op,           \* which function of the crate this behaviour exercises
    pc,           \* position inside that function
    text,         \* chunk_text: the text argument (characters)
    chunk_size,   \* chunk_text: the chunk_size argument
    current_pos,  \* chunk_text: local current_pos (byte offset)
    index,        \* chunk_text: local index
    chunks,       \* chunk_text: local chunks (the Vec being built)
    term,         \* term_frequency / tfidf_score: the term argument
    tf_text,      \* term_frequency: the text argument
    tf_result,    \* term_frequency: the returned f32
    corpus,       \* scorer: the chunks / all_chunks argument
    query,        \* score_chunks_tfidf: the query argument
    chunk,        \* tfidf_score: the chunk argument
    score,        \* tfidf_score: the returned f32
    result        \* score_chunks_tfidf: the returned Vec<(Chunk, f32)>

vars == <<op, pc, text, chunk_size, current_pos, index, chunks, term, tf_text,
          tf_result, corpus, query, chunk, score, result>>

chunkerVars == <<text, chunk_size, current_pos, index, chunks>>
tfVars == <<tf_text, tf_result>>
scorerVars == <<corpus, query, chunk, score, result>>

-----------------------------------------------------------------------------
(* Bounds *)

MaxChars == 3        \* characters in a text given to chunk_text
MaxChunkSize == 4    \* largest chunk_size given to chunk_text

-----------------------------------------------------------------------------
(* Characters and their UTF-8 encoding *)

\* One character of each encoded width: a, e-acute, euro sign, G clef.
ChunkAlphabet == {"a", "u00e9", "u20ac", "u1d11e"}

Utf8Len(c) ==
    CASE c = "u00e9" -> 2
      [] c = "u20ac" -> 3
      [] c = "u1d11e" -> 4
      [] OTHER -> 1

\* The maximum encoded character width.
Utf8MaxWidth == CHOOSE w \in 1..4 :
    /\ \E c \in ChunkAlphabet : Utf8Len(c) = w
    /\ \A c \in ChunkAlphabet : Utf8Len(c) <= w

\* The bytes of one character: byte k of Utf8Len(c); k > 1 is a continuation byte.
EncodeChar(c) == [k \in 1..Utf8Len(c) |-> [ch |-> c, k |-> k]]

RECURSIVE Utf8Encode(_)
Utf8Encode(s) ==
    IF s = <<>> THEN <<>> ELSE EncodeChar(Head(s)) \o Utf8Encode(Tail(s))

\* All character sequences over alphabet of length at most n.
RECURSIVE StringsUpTo(_, _)
StringsUpTo(alphabet, n) ==
    IF n = 0 THEN {<<>>}
    ELSE LET shorter == StringsUpTo(alphabet, n - 1)
         IN shorter \cup {Append(s, c) : s \in shorter, c \in alphabet}

-----------------------------------------------------------------------------
(* chunker.rs *)

Min(a, b) == IF a < b THEN a ELSE b

\* str::is_char_boundary on the encoded text, idx a 0-based byte offset.
is_char_boundary(bytes, idx) ==
    \/ idx = 0
    \/ idx = Len(bytes)
    \/ idx < Len(bytes) /\ bytes[idx + 1].k = 1

\* while end_pos < text_len && !text.is_char_boundary(end_pos) { end_pos += 1 }
RECURSIVE AdjustBoundary(_, _)
AdjustBoundary(bytes, end_pos) ==
    IF end_pos < Len(bytes) /\ ~is_char_boundary(bytes, end_pos)
    THEN AdjustBoundary(bytes, end_pos + 1)
    ELSE end_pos

\* Mutant of EndPos: the cut point is not moved to a character boundary.
EndPos_NoAdjust(bytes, pos, size) == Min(pos + size, Len(bytes))

\* Mutant of EndPos: the boundary search strides by the chunk size.
RECURSIVE EndPos_Stride(_, _, _)
EndPos_Stride(bytes, pos, size) ==
    LET e == Min(pos + size, Len(bytes))
    IN IF e < Len(bytes) /\ ~is_char_boundary(bytes, e)
       THEN EndPos_Stride(bytes, e, size)
       ELSE e

\* The end_pos one iteration of the loop arrives at.
EndPos(bytes, pos, size) == AdjustBoundary(bytes, Min(pos + size, Len(bytes)))

\* Mutant of Slice: the end offset is taken as inclusive of one byte less.
Slice_Short(bytes, from, to) == SubSeq(bytes, from + 1, to - 1)

\* text[from..to] on byte offsets.
Slice(bytes, from, to) == SubSeq(bytes, from + 1, to)

SourceFile == "test.txt"

Chunk(t, file, i) == [text |-> t, file |-> file, index |-> i]

\* The whole of chunk_text from the loop state (pos, idx, acc) on, for a
\* positive chunk_size (with 0 the loop does not end: see ChunkStep); a slice
\* off a character boundary panics.
RECURSIVE ChunkLoop(_, _, _, _, _, _)
ChunkLoop(bytes, size, file, pos, idx, acc) ==
    IF pos < Len(bytes)
    THEN LET end_pos == EndPos(bytes, pos, size)
         IN IF ~is_char_boundary(bytes, end_pos)
            THEN [panic |-> TRUE, chunks |-> acc]
            ELSE ChunkLoop(bytes, size, file, end_pos, idx + 1,
                           Append(acc, Chunk(Slice(bytes, pos, end_pos), file, idx)))
    ELSE [panic |-> FALSE, chunks |-> acc]

chunk_text(s, size, file) == ChunkLoop(Utf8Encode(s), size, file, 0, 0, <<>>)

\* The Vec grows until the allocator gives up; the model stops the loop there.
MaxEmit == Utf8MaxWidth * MaxChars + 1

ChunkerInit ==
    /\ op = "chunk_text"
    /\ pc = "loop"
    /\ text \in StringsUpTo(ChunkAlphabet, MaxChars)
    /\ chunk_size \in 0..MaxChunkSize
    /\ current_pos = 0
    /\ index = 0
    /\ chunks = <<>>
    /\ term = <<>> /\ tf_text = <<>> /\ tf_result = [k |-> "none"]
    /\ corpus = <<>> /\ query = <<>> /\ chunk = Chunk(<<>>, "", 0)
    /\ score = [k |-> "none"] /\ result = <<>>

\* One iteration of `while current_pos < text_len`.
ChunkStep ==
    /\ op = "chunk_text" /\ pc = "loop"
    /\ current_pos < Len(Utf8Encode(text))
    /\ Len(chunks) < MaxEmit
    /\ LET bytes == Utf8Encode(text)
           end_pos == EndPos(bytes, current_pos, chunk_size)
       IN IF is_char_boundary(bytes, end_pos)
          THEN /\ chunks' = Append(chunks,
                       Chunk(Slice(bytes, current_pos, end_pos), SourceFile, index))
               /\ current_pos' = end_pos
               /\ index' = index + 1
               /\ pc' = pc
          ELSE /\ pc' = "panic"
               /\ UNCHANGED <<chunks, current_pos, index>>
    /\ UNCHANGED <<op, text, chunk_size, term, tfVars, scorerVars>>

\* The loop condition fails and chunks is returned.
ChunkReturn ==
    /\ op = "chunk_text" /\ pc = "loop"
    /\ ~(current_pos < Len(Utf8Encode(text)))
    /\ pc' = "done"
    /\ UNCHANGED <<op, chunkerVars, term, tfVars, scorerVars>>

ChunkerNext == ChunkStep \/ ChunkReturn

SpecChunker == ChunkerInit /\ [][ChunkerNext]_vars

-----------------------------------------------------------------------------
(* f32 *)

Scale == 10000       \* fixed-point units per 1.0

NaN == [k |-> "nan"]
PosInf == [k |-> "pinf"]
NegInf == [k |-> "ninf"]
Fin(v) == [k |-> "fin", v |-> v]
FZero == Fin(0)

IsNaN(x) == x.k = "nan"
IsFinite(x) == x.k = "fin"

\* -1, 0 or 1 for a value that is not NaN.
FSign(x) ==
    CASE x.k = "pinf" -> 1
      [] x.k = "ninf" -> -1
      [] OTHER -> IF x.v > 0 THEN 1 ELSE IF x.v < 0 THEN -1 ELSE 0

Abs(i) == IF i < 0 THEN -i ELSE i

\* (a as f32) / (b as f32) for naturals a and b.
FDivNat(a, b) ==
    IF b = 0 THEN (IF a = 0 THEN NaN ELSE PosInf)
    ELSE Fin((a * Scale) \div b)

\* ln(n) * Scale for n in 1..10, rounded to nearest.
LnTable == <<0, 6931, 10986, 13863, 16094, 17918, 19459, 20794, 21972, 23026>>

\* ((n as f32) / (m as f32)).ln() for naturals n and m >= 1: ln n - ln m.
FLnRatio(n, m) ==
    IF n = 0 THEN NegInf ELSE Fin(LnTable[n] - LnTable[m])

\* x * y
FMul(x, y) ==
    IF IsNaN(x) \/ IsNaN(y) THEN NaN
    ELSE IF IsFinite(x) /\ IsFinite(y)
         THEN Fin(FSign(x) * FSign(y) * ((Abs(x.v) * Abs(y.v)) \div Scale))
         ELSE IF FSign(x) * FSign(y) = 0 THEN NaN
              ELSE IF FSign(x) * FSign(y) > 0 THEN PosInf ELSE NegInf

\* x + y
FAdd(x, y) ==
    IF IsNaN(x) \/ IsNaN(y) THEN NaN
    ELSE IF IsFinite(x) /\ IsFinite(y) THEN Fin(x.v + y.v)
         ELSE IF IsFinite(x) THEN y
              ELSE IF IsFinite(y) \/ x = y THEN x ELSE NaN

\* x < y; FALSE when either is NaN.
FLt(x, y) ==
    /\ ~IsNaN(x) /\ ~IsNaN(y)
    /\ \/ x.k = "ninf" /\ y.k # "ninf"
       \/ y.k = "pinf" /\ x.k # "pinf"
       \/ IsFinite(x) /\ IsFinite(y) /\ x.v < y.v

\* x > y; FALSE when either is NaN.
FGt(x, y) == FLt(y, x)

\* f32::partial_cmp
partial_cmp(x, y) ==
    IF IsNaN(x) \/ IsNaN(y) THEN "None"
    ELSE IF FLt(x, y) THEN "Less"
         ELSE IF FGt(x, y) THEN "Greater" ELSE "Equal"

-----------------------------------------------------------------------------
(* str *)

IsWhitespace(c) == c = " "
IsAlphanumeric(c) == c \in {"a", "b", "A"}
ToLowerChar(c) == IF c = "A" THEN "a" ELSE c

to_lowercase(s) == [i \in 1..Len(s) |-> ToLowerChar(s[i])]

\* str::split_whitespace: the maximal runs of non-whitespace characters.
RECURSIVE SplitFrom(_, _, _)
SplitFrom(s, word, acc) ==
    IF s = <<>> THEN (IF word = <<>> THEN acc ELSE Append(acc, word))
    ELSE IF IsWhitespace(Head(s))
         THEN SplitFrom(Tail(s), <<>>, IF word = <<>> THEN acc ELSE Append(acc, word))
         ELSE SplitFrom(Tail(s), Append(word, Head(s)), acc)

split_whitespace(s) == SplitFrom(s, <<>>, <<>>)

\* w.trim_end_matches(|c: char| !c.is_alphanumeric())
RECURSIVE trim_end_non_alphanumeric(_)
trim_end_non_alphanumeric(w) ==
    IF w # <<>> /\ ~IsAlphanumeric(w[Len(w)])
    THEN trim_end_non_alphanumeric(SubSeq(w, 1, Len(w) - 1))
    ELSE w

\* str::contains with a string pattern.
contains(hay, needle) ==
    \E i \in 0..(Len(hay) - Len(needle)) :
        SubSeq(hay, i + 1, i + Len(needle)) = needle

\* iter.filter(..).count() over the filter's verdicts.
RECURSIVE CountTrue(_)
CountTrue(flags) ==
    IF flags = <<>> THEN 0
    ELSE (IF Head(flags) THEN 1 ELSE 0) + CountTrue(Tail(flags))

-----------------------------------------------------------------------------
(* tfidf.rs: term_frequency *)

MaxTermLen == 2      \* characters in a term given to term_frequency or tfidf_score
MaxTextLen == 3      \* characters in a text given to term_frequency

TfAlphabet == {"a", "b", "A", " ", "."}

term_frequency(t, s) ==
    IF s = <<>> \/ t = <<>> THEN FZero
    ELSE LET text_lower == to_lowercase(s)
             term_lower == to_lowercase(t)
             words == split_whitespace(text_lower)
             Matches(w) ==
                 contains(to_lowercase(trim_end_non_alphanumeric(w)), term_lower)
             count == CountTrue([i \in 1..Len(words) |-> Matches(words[i])])
         IN FDivNat(count, Len(words))

TfInit ==
    /\ op = "term_frequency"
    /\ pc = "call"
    /\ term \in StringsUpTo(TfAlphabet, MaxTermLen)
    /\ tf_text \in StringsUpTo(TfAlphabet, MaxTextLen)
    /\ tf_result = [k |-> "none"]
    /\ text = <<>> /\ chunk_size = 0 /\ current_pos = 0 /\ index = 0
    /\ chunks = <<>>
    /\ corpus = <<>> /\ query = <<>> /\ chunk = Chunk(<<>>, "", 0)
    /\ score = [k |-> "none"] /\ result = <<>>

TermFrequency ==
    /\ op = "term_frequency" /\ pc = "call"
    /\ tf_result' = term_frequency(term, tf_text)
    /\ pc' = "done"
    /\ UNCHANGED <<op, chunkerVars, term, tf_text, scorerVars>>

TfNext == TermFrequency

SpecTf == TfInit /\ [][TfNext]_vars

-----------------------------------------------------------------------------
(* Properties of term_frequency *)

\* The words of s: the maximal intervals i..j without whitespace.
WordSpans(s) ==
    {<<i, j>> \in (1..Len(s)) \X (1..Len(s)) :
        /\ i <= j
        /\ \A k \in i..j : ~IsWhitespace(s[k])
        /\ i = 1 \/ IsWhitespace(s[i - 1])
        /\ j = Len(s) \/ IsWhitespace(s[j + 1])}

\* The word with its trailing non-alphanumeric characters removed.
Stripped(w) ==
    LET keep == {n \in 0..Len(w) :
                    /\ n = 0 \/ IsAlphanumeric(w[n])
                    /\ \A k \in (n + 1)..Len(w) : ~IsAlphanumeric(w[k])}
    IN SubSeq(w, 1, CHOOSE n \in keep : TRUE)

\* The words of s whose stripped lowercase form contains the lowercased term t.
MatchingSpans(t, s) ==
    {sp \in WordSpans(s) :
        contains(to_lowercase(Stripped(SubSeq(s, sp[1], sp[2]))), to_lowercase(t))}

\* C4: term_frequency returns a number in [0, 1], the matching words over the
\* word count, and exactly 0 for an empty text, an empty term or a text
\* without words.
C4_TermFrequency ==
    (op = "term_frequency" /\ pc = "done") =>
        /\ IsFinite(tf_result)
        /\ 0 <= tf_result.v /\ tf_result.v <= Scale
        /\ (tf_text = <<>> \/ term = <<>> \/ WordSpans(tf_text) = {})
              => tf_result = FZero
        /\ (term # <<>> /\ WordSpans(tf_text) # {}) =>
              tf_result.v * Cardinality(WordSpans(tf_text))
                  = Scale * Cardinality(MatchingSpans(term, tf_text))
                    - ((Scale * Cardinality(MatchingSpans(term, tf_text)))
                        % Cardinality(WordSpans(tf_text)))

\* C4 outside its failing case: the text has a word, or text or term is empty.
C4_ExceptWhitespaceOnly ==
    (op = "term_frequency" /\ pc = "done"
        /\ (tf_text = <<>> \/ term = <<>> \/ WordSpans(tf_text) # {}))
    => C4_TermFrequency

-----------------------------------------------------------------------------
(* tfidf.rs: inverse_document_frequency, tfidf_score, score_chunks_tfidf *)

MaxDocLen == 3       \* characters in the document the corpus is chunked from
MaxDocChunk == 2     \* largest chunk size the corpus is chunked with
MaxQueryLen == 3     \* characters in a query

DocAlphabet == {"a", "b", " "}          \* characters of the chunked documents
QueryAlphabet == {"a", "b", "A", " "}   \* characters of queries and terms

\* The characters of a chunk's text, from its bytes.
Utf8Decode(bytes) ==
    LET firsts == {i \in 1..Len(bytes) : bytes[i].k = 1}
        Nth(n) == CHOOSE i \in firsts : Cardinality({j \in firsts : j < i}) = n - 1
    IN [n \in 1..Cardinality(firsts) |-> bytes[Nth(n)].ch]

\* What chunk_text makes of a document.
ChunkedDocuments ==
    {LET cs == chunk_text(d, size, SourceFile).chunks
     IN [i \in 1..Len(cs) |-> Chunk(Utf8Decode(cs[i].text), cs[i].file, cs[i].index)] :
        d \in StringsUpTo(DocAlphabet, MaxDocLen), size \in 1..MaxDocChunk}

\* A chunk built by hand, as the tests do.
create_chunk(t) == Chunk(t, "", 1)

\* The corpora: a chunked document, alone or followed by a chunk without text.
Corpora ==
    ChunkedDocuments \cup {Append(cs, create_chunk(<<>>)) : cs \in ChunkedDocuments}

\* Mutant of inverse_document_frequency: add-one smoothing of the chunk count.
inverse_document_frequency_Smoothed(t, cs) ==
    LET term_lower == to_lowercase(t)
        chunks_with_term ==
            CountTrue([i \in 1..Len(cs) |->
                          contains(to_lowercase(cs[i].text), term_lower)])
    IN IF chunks_with_term = 0
       THEN FLnRatio(Len(cs) + 1, 1)
       ELSE FLnRatio(Len(cs) + 1, chunks_with_term)

inverse_document_frequency(t, cs) ==
    LET term_lower == to_lowercase(t)
        chunks_with_term ==
            CountTrue([i \in 1..Len(cs) |->
                          contains(to_lowercase(cs[i].text), term_lower)])
    IN IF chunks_with_term = 0
       THEN FLnRatio(Len(cs), 1)
       ELSE FLnRatio(Len(cs), chunks_with_term)

tfidf_score(t, c, all_chunks) ==
    FMul(term_frequency(t, c.text), inverse_document_frequency(t, all_chunks))

\* Iterator::sum over f32, from 0.0.
RECURSIVE FSumFrom(_, _)
FSumFrom(acc, xs) ==
    IF xs = <<>> THEN acc ELSE FSumFrom(FAdd(acc, Head(xs)), Tail(xs))

FSum(xs) == FSumFrom(FZero, xs)

\* Mutant of KeepScore: chunks with a zero score are kept too.
KeepScore_NonNegative(x) == FGt(x, FZero) \/ x = FZero

\* Mutant of KeepScore: the filter is written as !(score <= 0.0).
KeepScore_NotNonPositive(x) == ~(FLt(x, FZero) \/ x = FZero)

\* .filter(|(_, score)| *score > 0.0)
KeepScore(x) == FGt(x, FZero)

RECURSIVE FilterScored(_)
FilterScored(pairs) ==
    IF pairs = <<>> THEN <<>>
    ELSE (IF KeepScore(Head(pairs)[2]) THEN <<Head(pairs)>> ELSE <<>>)
         \o FilterScored(Tail(pairs))

\* Mutant of SortCompare: ascending scores.
SortCompare_Ascending(a, b) == partial_cmp(a[2], b[2])

\* |a, b| b.1.partial_cmp(&a.1), before the unwrap.
SortCompare(a, b) == partial_cmp(b[2], a[2])

\* slice::sort_by on a short slice: a stable insertion sort; x goes before the
\* elements of the sorted prefix it compares Less than. A comparison that
\* yields None panics in the unwrap.
RECURSIVE InsertTail(_, _)
InsertTail(sorted, x) ==
    IF sorted = <<>> THEN [panic |-> FALSE, v |-> <<x>>]
    ELSE LET last == sorted[Len(sorted)]
             ord == SortCompare(x, last)
         IN IF ord = "None" THEN [panic |-> TRUE, v |-> <<>>]
            ELSE IF ord = "Less"
                 THEN LET rest == InsertTail(SubSeq(sorted, 1, Len(sorted) - 1), x)
                      IN [panic |-> rest.panic, v |-> Append(rest.v, last)]
                 ELSE [panic |-> FALSE, v |-> Append(sorted, x)]

RECURSIVE SortFrom(_, _)
SortFrom(sorted, pending) ==
    IF pending = <<>> THEN [panic |-> FALSE, v |-> sorted]
    ELSE LET ins == InsertTail(sorted, Head(pending))
         IN IF ins.panic THEN ins ELSE SortFrom(ins.v, Tail(pending))

sort_by(pairs) == SortFrom(<<>>, pairs)

score_chunks_tfidf(q, cs) ==
    LET query_terms == split_whitespace(q)
        term_idfs == [t \in {query_terms[i] : i \in 1..Len(query_terms)} |->
                         inverse_document_frequency(t, cs)]
        ScoreOf(c) ==
            FSum([i \in 1..Len(query_terms) |->
                     FMul(term_frequency(query_terms[i], c.text),
                          term_idfs[query_terms[i]])])
        scored_chunks == FilterScored([i \in 1..Len(cs) |-> <<cs[i], ScoreOf(cs[i])>>])
    IN sort_by(scored_chunks)

ScorerInit ==
    /\ op = "score_chunks_tfidf"
    /\ pc = "call"
    /\ corpus \in Corpora
    /\ query = <<>> /\ result = <<>>
    /\ chunk = Chunk(<<>>, "", 0) /\ score = [k |-> "none"]
    /\ text = <<>> /\ chunk_size = 0 /\ current_pos = 0 /\ index = 0
    /\ chunks = <<>>
    /\ term = <<>> /\ tf_text = <<>> /\ tf_result = [k |-> "none"]

ScoreChunksTfidf ==
    /\ op = "score_chunks_tfidf" /\ pc = "call"
    /\ \E q \in StringsUpTo(QueryAlphabet, MaxQueryLen) :
          LET r == score_chunks_tfidf(q, corpus)
          IN /\ query' = q
             /\ result' = r.v
             /\ pc' = IF r.panic THEN "panic" ELSE "done"
    /\ UNCHANGED <<op, chunkerVars, term, tfVars, corpus, chunk, score>>

ScorerNext == ScoreChunksTfidf

SpecScorer == ScorerInit /\ [][ScorerNext]_vars

MaxArgLen == 2       \* characters in the text of the chunk given to tfidf_score

TfidfInit ==
    /\ op = "tfidf_score"
    /\ pc = "call"
    /\ corpus \in Corpora
    /\ query = <<>> /\ result = <<>>
    /\ chunk = Chunk(<<>>, "", 0) /\ score = [k |-> "none"]
    /\ text = <<>> /\ chunk_size = 0 /\ current_pos = 0 /\ index = 0
    /\ chunks = <<>>
    /\ term = <<>> /\ tf_text = <<>> /\ tf_result = [k |-> "none"]

TfidfScore ==
    /\ op = "tfidf_score" /\ pc = "call"
    /\ \E t \in StringsUpTo(QueryAlphabet, MaxTermLen),
          c \in {corpus[i] : i \in 1..Len(corpus)}
                 \cup {Chunk(s, SourceFile, 0) : s \in StringsUpTo(QueryAlphabet, MaxArgLen)} :
          /\ term' = t
          /\ chunk' = c
          /\ score' = tfidf_score(t, c, corpus)
    /\ pc' = "done"
    /\ UNCHANGED <<op, chunkerVars, tfVars, corpus, query, result>>

TfidfNext == TfidfScore

SpecTfidf == TfidfInit /\ [][TfidfNext]_vars

-----------------------------------------------------------------------------
(* Properties of the scorer *)

\* Whether t occurs in a word of s: in one of its whitespace-separated words,
\* trailing punctuation stripped, case ignored.
OccursInAWord(t, s) == MatchingSpans(t, s) # {}

\* The number of chunks of cs whose text contains t, case ignored.
ChunksWith(t, cs) ==
    Cardinality({i \in 1..Len(cs) : contains(to_lowercase(cs[i].text), to_lowercase(t))})

\* C5: tfidf_score is 0 when the term occurs in none of the chunk's words, and
\* strictly positive when it occurs in a word of the chunk and in fewer than
\* all chunks of the corpus.
C5_TfidfScore ==
    (op = "tfidf_score" /\ pc = "done") =>
        /\ ~OccursInAWord(term, chunk.text) => score = FZero
        /\ (OccursInAWord(term, chunk.text) /\ ChunksWith(term, corpus) < Len(corpus))
              => (IsFinite(score) /\ score.v > 0)

\* The first half of C5 alone.
C5_MissingTermYieldsZero ==
    (op = "tfidf_score" /\ pc = "done" /\ ~OccursInAWord(term, chunk.text))
        => score = FZero

\* The second half of C5 alone.
C5_PresentTermPositive ==
    (op = "tfidf_score" /\ pc = "done" /\ OccursInAWord(term, chunk.text)
        /\ ChunksWith(term, corpus) < Len(corpus))
        => (IsFinite(score) /\ score.v > 0)

\* The aggregate score of chunk c: the sum over the query's terms, in order and
\* with repetitions, of tf * idf.
RECURSIVE AggregateFrom(_, _, _, _)
AggregateFrom(acc, terms, c, cs) ==
    IF terms = <<>> THEN acc
    ELSE AggregateFrom(FAdd(acc, tfidf_score(Head(terms), c, cs)), Tail(terms), c, cs)

Aggregate(q, c, cs) == AggregateFrom(FZero, split_whitespace(q), c, cs)

StrictlyPositive(x) == x.k = "pinf" \/ (IsFinite(x) /\ x.v > 0)

Returned == op = "score_chunks_tfidf" /\ pc = "done"

\* C6: the returned list holds exactly the chunks of the corpus whose aggregate
\* score is strictly positive, each once and paired with that score; no
\* returned score is zero, negative or NaN.
C6_PositiveFilter ==
    Returned =>
        /\ \A i \in 1..Len(corpus) :
              LET agg == Aggregate(query, corpus[i], corpus)
                  hits == {j \in 1..Len(result) : result[j][1] = corpus[i]}
              IN IF StrictlyPositive(agg)
                 THEN Cardinality(hits) = 1 /\ \A j \in hits : result[j][2] = agg
                 ELSE hits = {}
        /\ \A j \in 1..Len(result) :
              /\ StrictlyPositive(result[j][2])
              /\ \E i \in 1..Len(corpus) : result[j][1] = corpus[i]

C6_Witness ==
    /\ Returned
    /\ Len(split_whitespace(query)) = 2
    /\ Len(result) >= 1 /\ Len(result) < Len(corpus)
    /\ \E i \in 1..Len(corpus) : Aggregate(query, corpus[i], corpus) = FZero
    /\ \E i \in 1..Len(corpus) : IsNaN(Aggregate(query, corpus[i], corpus))

\* C7: the returned list is in non-increasing order of score.
C7_Descending ==
    Returned =>
        \A j \in 1..(Len(result) - 1) :
            /\ ~IsNaN(result[j][2]) /\ ~IsNaN(result[j + 1][2])
            /\ ~FLt(result[j][2], result[j + 1][2])

\* The sort had to move a chunk ahead of one that precedes it in the corpus.
C7_Witness ==
    /\ Returned
    /\ \E j \in 1..(Len(result) - 1) :
          /\ FGt(result[j][2], result[j + 1][2])
          /\ result[j][1].index > result[j + 1][1].index

\* C8: score_chunks_tfidf never panics: the sort's comparison never meets a
\* NaN score, and a list is returned.
C8_NeverPanics ==
    op = "score_chunks_tfidf" =>
        /\ pc # "panic"
        /\ pc = "call" => ENABLED ScoreChunksTfidf
        /\ \A j \in 1..Len(result) : ~IsNaN(result[j][2])

\* Two chunks are returned although another chunk's score is NaN.
C8_Witness ==
    /\ Returned
    /\ Len(result) >= 2
    /\ \E i \in 1..Len(corpus) : IsNaN(Aggregate(query, corpus[i], corpus))

\* Whether the lowercased form of t is a substring of every chunk's text.
InEveryChunk(t, cs) == \A i \in 1..Len(cs) : contains(cs[i].text, to_lowercase(t))

\* C10: a query term contained in every chunk of a non-empty corpus has idf 0
\* and adds 0 to every chunk's score; a query of such terms only returns the
\* empty list, and so does every query on a corpus of one chunk.
C10_UbiquitousTerms ==
    Returned =>
        LET terms == split_whitespace(query)
            every == {i \in 1..Len(terms) : InEveryChunk(terms[i], corpus)}
        IN /\ \A i \in every :
                 Len(corpus) > 0 =>
                     /\ inverse_document_frequency(terms[i], corpus) = FZero
                     /\ \A n \in 1..Len(corpus) :
                           tfidf_score(terms[i], corpus[n], corpus) = FZero
           /\ every = 1..Len(terms) => result = <<>>
           /\ Len(corpus) = 1 => result = <<>>

\* One chunk that contains both terms of the query.
C10_Witness ==
    /\ Returned
    /\ Len(corpus) = 1
    /\ Len(split_whitespace(query)) = 2
    /\ \A i \in 1..2 :
          /\ InEveryChunk(split_whitespace(query)[i], corpus)
          /\ term_frequency(split_whitespace(query)[i], corpus[1].text) = Fin(Scale)

\* Every chunk contains the query's term, on a corpus of several chunks.
C10_WitnessSeveral ==
    /\ Returned
    /\ Len(corpus) >= 2
    /\ split_whitespace(query) # <<>>
    /\ \A i \in 1..Len(split_whitespace(query)) :
          InEveryChunk(split_whitespace(query)[i], corpus)

-----------------------------------------------------------------------------
(* Properties of the chunker *)

RECURSIVE ConcatTexts(_)
ConcatTexts(cs) ==
    IF cs = <<>> THEN <<>> ELSE Head(cs).text \o ConcatTexts(Tail(cs))

RECURSIVE EncodedLen(_)
EncodedLen(s) == IF s = <<>> THEN 0 ELSE Utf8Len(Head(s)) + EncodedLen(Tail(s))

\* The byte offsets at which a character of s starts or s ends.
Boundaries(s) == {EncodedLen(SubSeq(s, 1, j)) : j \in 0..Len(s)}

\* Byte offset at which the i-th emitted chunk starts, and the one where it ends.
ChunkStart(cs, i) == Len(ConcatTexts(SubSeq(cs, 1, i - 1)))
ChunkEnd(cs, i) == Len(ConcatTexts(SubSeq(cs, 1, i)))

\* C1: with a positive chunk_size the chunks carry the indices 0, 1, ..., k-1 in
\* emission order and their texts, concatenated in that order, are the bytes of
\* the text consumed so far: the whole text once chunk_text returns; an empty
\* text yields no chunk.
C1_RoundTrip ==
    (op = "chunk_text" /\ chunk_size > 0) =>
        /\ pc # "panic"
        /\ \A i \in 1..Len(chunks) : chunks[i].index = i - 1
        /\ ConcatTexts(chunks) = SubSeq(Utf8Encode(text), 1, current_pos)
        /\ pc = "done" => ConcatTexts(chunks) = Utf8Encode(text)
        /\ (pc = "done" /\ text = <<>>) => chunks = <<>>

C1_Witness ==
    /\ op = "chunk_text" /\ pc = "done" /\ chunk_size > 0
    /\ Len(chunks) >= 3
    /\ \E i \in 1..Len(text) : Utf8Len(text[i]) > 1

\* C2: with a positive chunk_size every chunk starts and ends on a character
\* boundary, each split point is the first character boundary at or after
\* chunk start + chunk_size, and every chunk but the final one is between
\* chunk_size and chunk_size + (maximum encoded width - 1) bytes long.
C2_BoundarySafe ==
    (op = "chunk_text" /\ chunk_size > 0) =>
        /\ pc # "panic"
        /\ \A i \in 1..Len(chunks) :
              LET s == ChunkStart(chunks, i)
                  e == ChunkEnd(chunks, i)
                  len == EncodedLen(text)
              IN /\ s \in Boundaries(text)
                 /\ e \in Boundaries(text)
                 /\ \A b \in Boundaries(text) : ~(s + chunk_size <= b /\ b < e)
                 /\ e < len =>
                       /\ e >= s + chunk_size
                       /\ e - s <= chunk_size + (Utf8MaxWidth - 1)
                 /\ e = len => e - s <= chunk_size + (Utf8MaxWidth - 1)

C2_Witness ==
    /\ op = "chunk_text" /\ pc = "done" /\ chunk_size > 0
    /\ \E i \in 1..Len(chunks) :
          /\ ChunkEnd(chunks, i) < EncodedLen(text)
          /\ Len(chunks[i].text) = chunk_size + (Utf8MaxWidth - 1)

\* C3: chunk_text with chunk_size = 0 on a non-empty text is rejected: it emits
\* no chunk (so it never emits chunks without advancing in the text).
C3_ZeroSizeRejected ==
    (op = "chunk_text" /\ chunk_size = 0 /\ text # <<>>) => chunks = <<>>

\* C9: for positive sizes s2 <= s1 = chunk_size, chunk_text with s2 returns at
\* least as many chunks as the finished call with s1 did.
C9_CountMonotone ==
    (op = "chunk_text" /\ pc = "done" /\ chunk_size > 0) =>
        \A s2 \in 1..chunk_size :
            LET smaller == chunk_text(text, s2, SourceFile)
            IN ~smaller.panic /\ Len(smaller.chunks) >= Len(chunks)

C9_Witness ==
    /\ op = "chunk_text" /\ pc = "done" /\ chunk_size > 1
    /\ \E i \in 1..Len(chunks) : Len(chunks[i].text) > chunk_size
    /\ \E s2 \in 1..(chunk_size - 1) :
          LET smaller == chunk_text(text, s2, SourceFile).chunks
          IN /\ \E i \in 1..Len(smaller) : Len(smaller[i].text) > s2
             /\ Len(smaller) > Len(chunks)

====
